---- MODULE Spec2Model ----
(***************************************************************************)
(* Model of the CueBox constituent-import web application:                 *)
(*   web_app/app.py     get_outputs, the POST /output handler              *)
(*   web_app/helper.py  validate_data, get_mapped_tags, map_tags,          *)
(*                      replace_invalid_email, normalize_dates,            *)
(*                      gen_constituents, gen_tag_counts                   *)
(*                                                                         *)
(* A Python str is a sequence of one-character strings.  A missing value   *)
(* (NaN / NaT / None) is the one-element sequence NaN.  An e-mail address  *)
(* is opaque to the program (it is only compared and handed to             *)
(* validate_email), so it is a one-element sequence holding the address.   *)
(* A DataFrame is a record [cols, rows]: the column labels in order and    *)
(* the rows in order, each row a function from column label to value.      *)
(*                                                                         *)
(* Library behaviour the model relies on:                                  *)
(*  - a column with no value in any row is float64, and .str, .dt and      *)
(*    str + column raise on it (AllNull);                                  *)
(*  - groupby(...).idxmax() on the Donation Date strings compares them as  *)
(*    str and takes the first of equal maxima (IdxMax, StrLess);           *)
(*  - value_counts() leaves equal counts in order of first occurrence;     *)
(*  - iterating a set yields its elements in any order (SetOrders).        *)
(* Inputs covered: at least one constituent row, no missing Email or       *)
(* Donation Date cell, whole unsigned donation amounts.                    *)
(***************************************************************************)
EXTENDS Integers, Sequences, FiniteSets, TLC

VARIABLES pc, constituents_df, emails_df, dhist_df, mapped_tags, c_df, t_df,
          response, ran

vars == <<pc, constituents_df, emails_df, dhist_df, mapped_tags, c_df, t_df,
          response, ran>>

NaN == <<"NaN">>

notnull(v) == v # NaN

(***************************************************************************)
(* Python str operations used by the helpers.                              *)
(***************************************************************************)
RECURSIVE Concat(_)
Concat(ss) == IF ss = <<>> THEN <<>> ELSE Head(ss) \o Concat(Tail(ss))

RECURSIVE Join(_, _)
Join(ss, sep) ==
    IF ss = <<>> THEN <<>>
    ELSE IF Len(ss) = 1 THEN ss[1]
    ELSE ss[1] \o sep \o Join(Tail(ss), sep)

Contains(s, ch) == \E i \in DOMAIN s : s[i] = ch

StartsWith(s, p) == Len(s) >= Len(p) /\ SubSeq(s, 1, Len(p)) = p

\* str.split(sep) for a non-empty separator: empty fields are kept
RECURSIVE SplitFrom(_, _, _)
SplitFrom(s, sep, cur) ==
    IF s = <<>> THEN <<cur>>
    ELSE IF StartsWith(s, sep)
         THEN <<cur>> \o SplitFrom(SubSeq(s, Len(sep) + 1, Len(s)), sep, <<>>)
         ELSE SplitFrom(Tail(s), sep, Append(cur, Head(s)))

SplitOn(s, sep) == SplitFrom(s, sep, <<>>)

\* str.split() with no argument: runs of whitespace separate, no empty fields
SplitWS(s) == SelectSeq(SplitOn(s, <<" ">>), LAMBDA w : w # <<>>)

RECURSIVE LStripChars(_, _)
LStripChars(s, chars) ==
    IF s # <<>> /\ Head(s) \in chars THEN LStripChars(Tail(s), chars) ELSE s

RECURSIVE RStripChars(_, _)
RStripChars(s, chars) ==
    IF s # <<>> /\ s[Len(s)] \in chars
    THEN RStripChars(SubSeq(s, 1, Len(s) - 1), chars) ELSE s

StripChars(s, chars) == RStripChars(LStripChars(s, chars), chars)

Strip(s) == StripChars(s, {" "})

RECURSIVE ZFill(_, _)
ZFill(s, width) == IF Len(s) >= width THEN s ELSE ZFill(<<"0">> \o s, width)

LowerChar(ch) ==
    CASE ch = "N" -> "n" [] ch = "O" -> "o" [] ch = "E" -> "e"
      [] ch = "A" -> "a" [] ch = "C" -> "c" [] ch = "M" -> "m"
      [] ch = "U" -> "u" [] OTHER -> ch

Lower(s) == [i \in DOMAIN s |-> LowerChar(s[i])]

Digits == <<"0", "1", "2", "3", "4", "5", "6", "7", "8", "9">>

IsDigit(ch) == \E i \in DOMAIN Digits : Digits[i] = ch

DigitVal(ch) == (CHOOSE i \in DOMAIN Digits : Digits[i] = ch) - 1

AllDigits(s) == s # <<>> /\ \A i \in DOMAIN s : IsDigit(s[i])

RECURSIVE ToInt(_)
ToInt(s) == IF s = <<>> THEN 0 ELSE 10 * ToInt(SubSeq(s, 1, Len(s) - 1)) + DigitVal(s[Len(s)])

RECURSIVE ToStr(_)
ToStr(n) == IF n < 10 THEN <<Digits[n + 1]>> ELSE ToStr(n \div 10) \o <<Digits[(n % 10) + 1]>>

(***************************************************************************)
(* The external collaborators: the tag-mapping API and validate_email.     *)
(***************************************************************************)
\* what requests.get(url) can do: answer 200 with the expected JSON list,
\* answer another status, raise (API unreachable), answer 200 with a body
\* that is not the expected list of {name, mapped_name}
ApiOutcomes == {"ok", "non200", "unreachable", "badbody"}

\* the body of the 200 answer, [{name, mapped_name}, ...]
ApiBody == << [name |-> <<" ", "A">>, mapped_name |-> <<"C", " ">>] >>

\* validate_email(e, check_deliverability=True) returns for these addresses
\* and raises EmailNotValidError for every other str
DeliverableEmails == { <<"p@x.com">>, <<"ok@x.com">>, <<"ok2@x.com">> }

\* the outcome of validate_email: "ok", or the exception it raises
validate_email(e) ==
    IF e = NaN THEN "AttributeError"
    ELSE IF e \in DeliverableEmails THEN "ok" ELSE "EmailNotValidError"

(***************************************************************************)
(* helper.py                                                               *)
(***************************************************************************)
\* get_mapped_tags: [raised, value]
get_mapped_tags(outcome) ==
    IF outcome = "unreachable"
    THEN [raised |-> "ConnectionError", value |-> <<>>]
    ELSE IF outcome = "ok"
    THEN [raised |-> "none",
          value |-> [k \in {Strip(ApiBody[i].name) : i \in DOMAIN ApiBody} |->
                       LET i == CHOOSE j \in DOMAIN ApiBody :
                                   Strip(ApiBody[j].name) = k
                                   /\ \A l \in DOMAIN ApiBody :
                                        Strip(ApiBody[l].name) = k => l <= j
                       IN  Strip(ApiBody[i].mapped_name)]]
    ELSE IF outcome = "badbody"
    THEN [raised |-> "TypeError", value |-> <<>>]
    ELSE [raised |-> "none", value |-> <<>>]

\* dict.get(k, k)
MappingGet(mapping, k) == IF k \in DOMAIN mapping THEN mapping[k] ELSE k

Range(f) == { f[i] : i \in DOMAIN f }

\* the orders in which iterating a Python set can yield its elements
SetOrders(S) ==
    { o \in [1..Cardinality(S) -> S] : \A i, j \in DOMAIN o : i # j => o[i] # o[j] }

\* map_tags: the strings it can return (the set's iteration order is not
\* fixed by the language)
map_tags(tags, mapping) ==
    IF notnull(tags)
    THEN LET parts  == SplitOn(tags, <<",">>)
             mapped == [i \in DOMAIN parts |-> MappingGet(mapping, Strip(parts[i]))]
         IN  { Join(o, <<",", " ">>) : o \in SetOrders(Range(mapped)) }
    ELSE { NaN }

\* replace_invalid_email: unique_emails maps a Patron ID to its first valid Email
replace_invalid_email(entry, unique_emails) ==
    IF validate_email(entry["Primary Email"]) = "ok"
    THEN entry["Primary Email"]
    ELSE IF entry["Patron ID"] \in DOMAIN unique_emails
         THEN unique_emails[entry["Patron ID"]]
         ELSE NaN

\* a calendar date as pd.to_datetime reads it here: YYYY-MM-DD
IsDate(w) ==
    /\ Len(w) = 10
    /\ w[5] = "-" /\ w[8] = "-"
    /\ \A i \in {1, 2, 3, 4, 6, 7, 9, 10} : IsDigit(w[i])
    /\ ToInt(SubSeq(w, 6, 7)) \in 1..12
    /\ ToInt(SubSeq(w, 9, 10)) \in 1..31

\* a time of day as pd.to_datetime reads it here: H:MM, HH:MM or HH:MM:SS
IsTime(w) ==
    LET f == SplitOn(w, <<":">>)
    IN  /\ Len(f) \in {2, 3}
        /\ \A i \in DOMAIN f : AllDigits(f[i]) /\ Len(f[i]) <= 2
        /\ \A i \in DOMAIN f : i > 1 => Len(f[i]) = 2
        /\ ToInt(f[1]) < 24
        /\ \A i \in DOMAIN f : i > 1 => ToInt(f[i]) < 60

NaT == [null |-> TRUE, date |-> <<>>, H |-> 0, M |-> 0, S |-> 0]

\* pd.to_datetime(date, errors='coerce'): a Timestamp, or NaT for a string
\* it cannot parse; it does not raise
to_datetime(date) ==
    LET w == SplitWS(date)
    IN  IF Len(w) = 1 /\ IsDate(w[1])
        THEN [null |-> FALSE, date |-> w[1], H |-> 0, M |-> 0, S |-> 0]
        ELSE IF Len(w) = 2 /\ IsDate(w[1]) /\ IsTime(w[2])
        THEN LET f == SplitOn(w[2], <<":">>)
             IN  [null |-> FALSE, date |-> w[1], H |-> ToInt(f[1]), M |-> ToInt(f[2]),
                  S |-> IF Len(f) = 3 THEN ToInt(f[3]) ELSE 0]
        ELSE NaT

\* .dt.strftime('%Y-%m-%d %H:%M:%S'); NaT gives NaN
strftime(ts) ==
    IF ts.null THEN NaN
    ELSE ts.date \o <<" ">> \o ZFill(ToStr(ts.H), 2) \o <<":">>
         \o ZFill(ToStr(ts.M), 2) \o <<":">> \o ZFill(ToStr(ts.S), 2)

\* the lines of normalize_dates that run when the date holds a colon:
\* [raised, date]
ReassembleTime(date) ==
    LET words == SplitWS(date)
    IN  IF Len(words) # 2
        THEN [raised |-> "ValueError", date |-> date]     \* d, t = date.split()
        ELSE LET hm == SplitOn(words[2], <<":">>)
             IN  IF Len(hm) # 2
                 THEN [raised |-> "ValueError", date |-> date]  \* h, m = t.split(':')
                 ELSE [raised |-> "none",
                       date |-> words[1] \o <<" ">> \o ZFill(hm[1], 2) \o <<":">> \o hm[2]]

\* normalize_dates: [raised, value]; value is a Timestamp, NaT or nan
normalize_dates(date) ==
    IF notnull(date)
    THEN IF Contains(date, ":")
         THEN LET r == ReassembleTime(date)
              IN  IF r.raised # "none"
                  THEN [raised |-> r.raised, value |-> NaT]
                  ELSE [raised |-> "none", value |-> to_datetime(r.date)]
         ELSE [raised |-> "none", value |-> to_datetime(date)]
    ELSE [raised |-> "none", value |-> NaT]

(***************************************************************************)
(* DataFrame operations (pandas)                                           *)
(***************************************************************************)
Index(seq, x) == CHOOSE i \in DOMAIN seq : seq[i] = x

InSeq(seq, x) == \E i \in DOMAIN seq : seq[i] = x

Remove(seq, x) == SelectSeq(seq, LAMBDA y : y # x)

\* the list with x put at position loc (0-based, as DataFrame.insert)
InsertAt(seq, loc, x) == SubSeq(seq, 1, loc) \o <<x>> \o SubSeq(seq, loc + 1, Len(seq))

Column(df, col) == [i \in DOMAIN df.rows |-> df.rows[i][col]]

\* df[col] = values: an existing column keeps its place, a new one goes last
SetColumn(df, col, values) ==
    [cols |-> IF InSeq(df.cols, col) THEN df.cols ELSE Append(df.cols, col),
     rows |-> [i \in DOMAIN df.rows |->
                 [c \in DOMAIN df.rows[i] \cup {col} |->
                    IF c = col THEN values[i] ELSE df.rows[i][c]]]]

\* df.insert(loc=loc, column=col, value=df.pop(col))
MoveColumn(df, col, loc) ==
    [cols |-> InsertAt(Remove(df.cols, col), loc, col), rows |-> df.rows]

\* df.drop(dropped, axis=1)
DropColumns(df, dropped) ==
    [cols |-> SelectSeq(df.cols, LAMBDA c : c \notin dropped),
     rows |-> [i \in DOMAIN df.rows |->
                 [c \in DOMAIN df.rows[i] \ dropped |-> df.rows[i][c]]]]

\* df.rename(columns=names); names is a function from old label to new
RenameColumns(df, names) ==
    LET new(c) == IF c \in DOMAIN names THEN names[c] ELSE c
    IN  [cols |-> [i \in DOMAIN df.cols |-> new(df.cols[i])],
         rows |-> [i \in DOMAIN df.rows |->
                     [c \in { new(o) : o \in DOMAIN df.rows[i] } |->
                        df.rows[i][CHOOSE o \in DOMAIN df.rows[i] : new(o) = c]]]]

\* left.merge(right, on=key, how='left'): every left row in order, once per
\* matching right row (in the right's order), or once with NaN in the right's
\* columns when none matches; the columns are the left's, then the right's
\* other than the key
MergeLeft(left, right, key) ==
    LET rcols == Remove(right.cols, key)
        join(l, r) == [c \in DOMAIN l \cup Range(rcols) |->
                         IF c \in DOMAIN l THEN l[c] ELSE r[c]]
        nan(l)     == [c \in DOMAIN l \cup Range(rcols) |->
                         IF c \in DOMAIN l THEN l[c] ELSE NaN]
        matches(l) == SelectSeq(right.rows, LAMBDA r : r[key] = l[key])
        expand(l)  == IF matches(l) = <<>> THEN << nan(l) >>
                      ELSE [j \in DOMAIN matches(l) |-> join(l, matches(l)[j])]
    IN  [cols |-> left.cols \o rcols, rows |-> Concat([i \in DOMAIN left.rows |-> expand(left.rows[i])])]

\* the keys of a groupby, and the rows of one group in their input order
GroupKeys(df, key) == { df.rows[i][key] : i \in DOMAIN df.rows }

Group(df, key, k) == SelectSeq(df.rows, LAMBDA r : r[key] = k)

\* groupby(key)[col].first(): the first non-null value of the group, or NaN
First(rows, col) ==
    LET nn == SelectSeq(rows, LAMBDA r : notnull(r[col]))
    IN  IF nn = <<>> THEN NaN ELSE nn[1][col]

\* str comparison, as Python compares str values (by code point)
CodePoints == <<" ", "$", ",", "-", "/", "0", "1", "2", "3", "4", "5", "6", "7",
                "8", "9", ":">>

RECURSIVE StrLess(_, _)
StrLess(a, b) ==
    IF b = <<>> THEN FALSE
    ELSE IF a = <<>> THEN TRUE
    ELSE IF Head(a) = Head(b) THEN StrLess(Tail(a), Tail(b))
    ELSE Index(CodePoints, Head(a)) < Index(CodePoints, Head(b))

\* the elements of a finite set of integers in ascending order
RECURSIVE SortedSeq(_)
SortedSeq(S) ==
    IF S = {} THEN <<>>
    ELSE LET m == CHOOSE x \in S : \A y \in S : x <= y
         IN  <<m>> \o SortedSeq(S \ {m})

RECURSIVE Sum(_)
Sum(seq) == IF seq = <<>> THEN 0 ELSE Head(seq) + Sum(Tail(seq))

\* digits with a comma before every group of three, as format's ',' option
RECURSIVE Thousands(_)
Thousands(ds) ==
    IF Len(ds) <= 3 THEN ds
    ELSE Thousands(SubSeq(ds, 1, Len(ds) - 3)) \o <<",">> \o SubSeq(ds, Len(ds) - 2, Len(ds))

\* '${:,.2f}'.format(x) for a whole, non-negative x
FormatCurrency(x) == <<"$">> \o Thousands(ToStr(x)) \o <<".", "0", "0">>

\* .str.replace('$', '').str.replace(',', '').astype(float) of one value:
\* [raised, value]; amounts are whole and unsigned here
ParseAmount(a) ==
    LET t == SelectSeq(a, LAMBDA ch : ch # "$" /\ ch # ",")
    IN  IF AllDigits(t) THEN [raised |-> "none", value |-> ToInt(t)]
        ELSE [raised |-> "ValueError", value |-> 0]

exp_columns ==
    << <<"Patron ID", "First Name", "Last Name", "Date Entered", "Primary Email",
         "Company", "Salutation", "Title", "Tags", "Gender">>,
       <<"Patron ID", "Email">>,
       <<"Patron ID", "Donation Amount", "Donation Date", "Payment Method",
         "Campaign", "Status">> >>

\* the messages validate_data returns, word by word
SchemaMessage == <<"Ensure", "that", "columns", "adhere", "to", "the", "samples">>

AmountMessage == <<"Invalid", "donation", "amount", "format", "detected">>

\* validate_data: [valid, msg, dhist]; dhist is dhist_df as the call leaves
\* it, its Donation Amount column converted in place when every value parses
validate_data(c, e, d) ==
    LET column_lists == <<c.cols, e.cols, d.cols>>
        amounts      == Column(d, "Donation Amount")
    IN  IF \E i \in 1..3 : Range(column_lists[i]) # Range(exp_columns[i])
        THEN [valid |-> FALSE, msg |-> SchemaMessage, dhist |-> d]
        ELSE IF \E i \in DOMAIN amounts : ParseAmount(amounts[i]).raised # "none"
        THEN [valid |-> FALSE, msg |-> AmountMessage, dhist |-> d]
        ELSE [valid |-> TRUE, msg |-> <<>>,
              dhist |-> SetColumn(d, "Donation Amount",
                                  [i \in DOMAIN amounts |-> ParseAmount(amounts[i]).value])]

\* non_company_words as Python reads the list: the adjacent literals 'n/a'
\* 'none' are one str
non_company_words ==
    << <<"n", "/", "a", "n", "o", "n", "e">>,
       <<"u", "s", "e", "d", " ", "t", "o", " ", "w", "o", "r", "k", " ", "h", "e", "r", "e">> >>

JobTitlePrefix == <<"J", "o", "b", " ", "T", "i", "t", "l", "e", ":", " ">>

MaritalStatusPrefix == <<"M", "a", "r", "i", "t", "a", "l", " ", "S", "t", "a", "t", "u", "s", ":", " ">>

Unknown == <<"U", "n", "k", "n", "o", "w", "n">>

\* the valid_map loop and emails_df[valid_map]
FilterValidEmails(e) ==
    [cols |-> e.cols, rows |-> SelectSeq(e.rows, LAMBDA r : validate_email(r["Email"]) = "ok")]

\* dhist_df[dhist_df['Status'] == 'Paid']
FilterPaid(d) ==
    [cols |-> d.cols, rows |-> SelectSeq(d.rows, LAMBDA r : r["Status"] = <<"Paid">>)]

\* groupby('Patron ID')['Donation Date'].idxmax() for one group: the first
\* row holding the greatest Donation Date
IdxMax(rows) ==
    LET i == CHOOSE j \in DOMAIN rows :
                 /\ \A k \in DOMAIN rows :
                       ~StrLess(rows[j]["Donation Date"], rows[k]["Donation Date"])
                 /\ \A k \in 1..(j - 1) :
                       StrLess(rows[k]["Donation Date"], rows[j]["Donation Date"])
    IN  rows[i]

\* lt_donations.merge(most_recent_donations, on='Patron ID'), both formatted
DonationDetails(paid) ==
    LET keys == SortedSeq(GroupKeys(paid, "Patron ID"))
        row(k) ==
            LET g == Group(paid, "Patron ID", k)
                m == IdxMax(g)
            IN  [c \in {"lifetime_donations", "Patron ID", "Donation Date", "Donation Amount"} |->
                   CASE c = "lifetime_donations" ->
                          FormatCurrency(Sum([i \in DOMAIN g |-> g[i]["Donation Amount"]]))
                     [] c = "Patron ID" -> k
                     [] c = "Donation Date" -> m["Donation Date"]
                     [] c = "Donation Amount" -> FormatCurrency(m["Donation Amount"])]
    IN  [cols |-> <<"lifetime_donations", "Patron ID", "Donation Date", "Donation Amount">>,
         rows |-> [i \in DOMAIN keys |-> row(keys[i])]]

\* np.select(t_conds, t_choices, default='Unknown') for one row
ConstituentType(r) ==
    IF notnull(r["First Name"]) /\ notnull(r["Last Name"]) THEN <<"Person">>
    ELSE IF notnull(r["Company"]) /\ ~InSeq(non_company_words, Lower(r["Company"]))
    THEN <<"Company">>
    ELSE <<"Unknown">>

\* emails_df.groupby('Patron ID').first(), as a function of Patron ID
UniqueEmails(valid) ==
    [k \in GroupKeys(valid, "Patron ID") |-> First(Group(valid, "Patron ID", k), "Email")]

\* a != b on two cells: NaN differs from everything, itself included
CellsDiffer(a, b) == a = NaN \/ b = NaN \/ a # b

\* temp_df.groupby('Patron ID')['Email'].first().rename('email2') where
\* temp_df is c_df.merge(emails_df, how='left') less the rows whose Email is
\* the row's Primary Email
SecondaryEmails(c, valid) ==
    LET merged == MergeLeft(c, valid, "Patron ID")
        temp   == [cols |-> merged.cols,
                   rows |-> SelectSeq(merged.rows,
                                      LAMBDA r : CellsDiffer(r["Primary Email"], r["Email"]))]
        keys   == SortedSeq(GroupKeys(temp, "Patron ID"))
    IN  [cols |-> <<"Patron ID", "email2">>,
         rows |-> [i \in DOMAIN keys |->
                     [c2 \in {"Patron ID", "email2"} |->
                        IF c2 = "Patron ID" THEN keys[i]
                        ELSE First(Group(temp, "Patron ID", keys[i]), "Email")]]]

\* np.char.strip(job_title + '; ' + marital_status, '; ') for one row
BackgroundInfo(r) ==
    LET job_title == IF notnull(r["Title"]) THEN JobTitlePrefix \o r["Title"] ELSE <<>>
        marital_status == IF notnull(r["Gender"]) /\ r["Gender"] # Unknown
                          THEN MaritalStatusPrefix \o r["Gender"] ELSE <<>>
    IN  StripChars(job_title \o <<";", " ">> \o marital_status, {";", " "})

OutputNames ==
    [o \in {"Patron ID", "First Name", "Last Name", "Date Entered", "Primary Email",
            "Company", "Salutation", "Tags", "Donation Amount", "Donation Date"} |->
       CASE o = "Patron ID" -> "patron_id"
         [] o = "First Name" -> "first_name"
         [] o = "Last Name" -> "last_name"
         [] o = "Date Entered" -> "created_at"
         [] o = "Primary Email" -> "email1"
         [] o = "Company" -> "company"
         [] o = "Salutation" -> "title"
         [] o = "Tags" -> "tags"
         [] o = "Donation Amount" -> "most_recent_donation_amount"
         [] o = "Donation Date" -> "most_recent_donation_date"]

\* a column pandas holds as float64 because no row has a value in it: the
\* .str and .dt accessors and str + column raise on it
AllNull(df, col) == \A i \in DOMAIN df.rows : ~notnull(df.rows[i][col])

\* the first exception gen_constituents raises after the tag fetch, or "none"
GenConstituentsRaises(c, e) ==
    LET dates == [i \in DOMAIN c.rows |-> normalize_dates(c.rows[i]["Date Entered"])]
    IN  IF \E i \in DOMAIN e.rows : validate_email(e.rows[i]["Email"]) = "AttributeError"
        THEN "AttributeError"                                   \* line 142
        ELSE IF AllNull(c, "Company") THEN "AttributeError"     \* line 161
        ELSE IF \E i \in DOMAIN dates : dates[i].raised # "none"
        THEN "ValueError"                                       \* line 166
        ELSE IF AllNull(c, "Date Entered") THEN "AttributeError" \* line 167
        ELSE IF AllNull(c, "Title") \/ AllNull(c, "Gender") THEN "TypeError" \* lines 181-182
        ELSE "none"

\* c_df.merge(secondary_emails, on='Patron ID', how='left')
MergeSecondaryEmails(c, secondary) == MergeLeft(c, secondary, "Patron ID")

\* the merge without how='left' (an inner join): rows with no match are dropped
MergeInner(left, right, key) ==
    LET merged == MergeLeft(left, right, key)
    IN  [cols |-> merged.cols,
         rows |-> SelectSeq(merged.rows,
                            LAMBDA l : \E i \in DOMAIN right.rows : right.rows[i][key] = l[key])]

MergeDonationDetailsInner(c, details) == MergeInner(c, details, "Patron ID")

\* c_df.merge(donation_details, on='Patron ID', how='left')
MergeDonationDetails(c, details) == MergeLeft(c, details, "Patron ID")

\* gen_constituents after the tag fetch, when nothing raises; tags[i] is the
\* str map_tags returned for row i
gen_constituents(c_in, e_in, d_in, tags) ==
    LET valid    == FilterValidEmails(e_in)
        details  == DonationDetails(FilterPaid(d_in))
        \* lines 158-164
        c1 == MoveColumn(SetColumn(c_in, "type",
                  [i \in DOMAIN c_in.rows |-> ConstituentType(c_in.rows[i])]), "type", 1)
        \* lines 165-167
        c2 == SetColumn(c1, "Date Entered",
                  [i \in DOMAIN c1.rows |->
                     strftime(normalize_dates(c1.rows[i]["Date Entered"]).value)])
        \* lines 168-170
        c3 == SetColumn(c2, "Primary Email",
                  [i \in DOMAIN c2.rows |->
                     replace_invalid_email(c2.rows[i], UniqueEmails(valid))])
        \* lines 171-177
        c4 == MoveColumn(MergeSecondaryEmails(c3, SecondaryEmails(c3, valid)), "email2", 7)
        \* lines 178-179
        c5 == SetColumn(c4, "Tags", tags)
        \* lines 180-185
        c6 == DropColumns(SetColumn(c5, "background_info",
                  [i \in DOMAIN c5.rows |-> BackgroundInfo(c5.rows[i])]), {"Title", "Gender"})
        \* lines 186-187
        c7 == MergeDonationDetails(c6, details)
        \* lines 189-196
        c8 == RenameColumns(c7, OutputNames)
    IN  MoveColumn(MoveColumn(MoveColumn(c8, "type", 1), "company", 4), "email2", 7)

\* the distinct values of a sequence in order of first occurrence
RECURSIVE Distinct(_)
Distinct(seq) ==
    IF seq = <<>> THEN <<>>
    ELSE LET rest == Distinct(SubSeq(seq, 1, Len(seq) - 1))
         IN  IF InSeq(rest, seq[Len(seq)]) THEN rest ELSE Append(rest, seq[Len(seq)])

\* sort_values(ascending=False) on the counts, ties left in their order
RECURSIVE SortDescending(_)
SortDescending(rows) ==
    IF rows = <<>> THEN <<>>
    ELSE LET sorted == SortDescending(SubSeq(rows, 1, Len(rows) - 1))
             x      == rows[Len(rows)]
             n      == Cardinality({ i \in DOMAIN sorted : sorted[i].tag_count >= x.tag_count })
         IN  InsertAt(sorted, n, x)

\* tags_df['tags'].str.split(', ') then explode: one entry per (row, tag),
\* a row with null tags leaves one null entry
Explode(c) ==
    Concat([i \in DOMAIN c.rows |->
              IF notnull(c.rows[i]["tags"])
              THEN SplitOn(c.rows[i]["tags"], <<",", " ">>)
              ELSE << NaN >>])

\* value_counts(sort=False): the counts in order of first occurrence
ValueCountsUnsorted(values) ==
    LET present == SelectSeq(values, notnull)
        names   == Distinct(present)
    IN  [i \in DOMAIN names |->
            [tag_name |-> names[i],
             tag_count |-> Cardinality({ j \in DOMAIN present : present[j] = names[i] })]]

\* value_counts(): nulls dropped, counted per distinct value, greatest first
ValueCounts(values) ==
    LET present == SelectSeq(values, notnull)
        names   == Distinct(present)
    IN  SortDescending([i \in DOMAIN names |->
            [tag_name |-> names[i],
             tag_count |-> Cardinality({ j \in DOMAIN present : present[j] = names[i] })]])

\* gen_tag_counts: [raised, df]
gen_tag_counts(c) ==
    IF AllNull(c, "tags")
    THEN [raised |-> "AttributeError", df |-> [cols |-> <<>>, rows |-> <<>>]]
    ELSE [raised |-> "none",
          df |-> [cols |-> <<"tag_name", "tag_count">>, rows |-> ValueCounts(Explode(c))]]

(***************************************************************************)
(* The requests: the three tables pd.read_csv hands to get_outputs.        *)
(***************************************************************************)
MaxRows == 2        \* constituent rows in a request
MaxEmails == 2      \* rows of the emails file
MaxDonations == 2   \* rows of the donation history file
MaxWords == 3       \* space-separated words in a Date Entered string

SeqsUpTo(S, lo, hi) == UNION { [1..n -> S] : n \in lo..hi }

Table(cols, rows) == [cols |-> cols, rows |-> rows]

ConstituentRow(pid, first, last, date, email, company, tags, title, gender) ==
    [c \in Range(exp_columns[1]) |->
       CASE c = "Patron ID" -> pid
         [] c = "First Name" -> first
         [] c = "Last Name" -> last
         [] c = "Date Entered" -> date
         [] c = "Primary Email" -> email
         [] c = "Company" -> company
         [] c = "Salutation" -> <<"Ms">>
         [] c = "Title" -> title
         [] c = "Tags" -> tags
         [] c = "Gender" -> gender]

EmailRow(pid, email) ==
    [c \in Range(exp_columns[2]) |-> IF c = "Patron ID" THEN pid ELSE email]

DonationRow(pid, amount, date, status) ==
    [c \in Range(exp_columns[3]) |->
       CASE c = "Patron ID" -> pid
         [] c = "Donation Amount" -> amount
         [] c = "Donation Date" -> date
         [] c = "Payment Method" -> <<"Cash">>
         [] c = "Campaign" -> NaN
         [] c = "Status" -> status]

Date1 == <<"2", "0", "2", "4", "-", "0", "1", "-", "1", "5">>
Date2 == <<"2", "0", "2", "4", "-", "0", "3", "-", "0", "2">>
Acme == <<"A", "c", "m", "e">>
TagA == <<"A">>
TagsAB == <<"A", ",", " ", "B">>
CEO == <<"C", "E", "O">>
Married == <<"M", "a", "r", "r", "i", "e", "d">>
Amount100 == <<"$", "1", "0", "0">>
Amount1000 == <<"$", "1", ",", "0", "0", "0">>

BaseRow(pid) == ConstituentRow(pid, <<"Jane">>, <<"Doe">>, Date1, <<"p@x.com">>, Acme,
                               TagA, CEO, Married)

BaseConstituents == << BaseRow(1) >>
BaseEmails == << EmailRow(1, <<"ok@x.com">>) >>
BaseDonations == << DonationRow(1, Amount100, Date1, <<"Paid">>) >>

\* the column lists a request can come with: the samples' order, the same
\* columns in other orders, a column missing, a column too many
ConstituentColumns ==
    { exp_columns[1],
      <<"First Name", "Patron ID", "Last Name", "Date Entered", "Primary Email",
        "Company", "Salutation", "Title", "Tags", "Gender">>,
      <<"Patron ID", "Company", "Primary Email", "First Name", "Last Name",
        "Date Entered", "Gender", "Salutation", "Title", "Tags">>,
      <<"Patron ID", "First Name", "Last Name", "Date Entered", "Primary Email",
        "Company", "Salutation", "Title", "Tags">>,
      <<"Patron ID", "First Name", "Last Name", "Date Entered", "Primary Email",
        "Company", "Salutation", "Title", "Tags", "Gender", "Notes">> }

EmailColumns == { exp_columns[2], <<"Email", "Patron ID">>, <<"Patron ID">> }

DonationColumns ==
    { exp_columns[3],
      <<"Status", "Donation Date", "Donation Amount", "Patron ID", "Campaign",
        "Payment Method">>,
      <<"Patron ID", "Donation Amount", "Donation Date", "Payment Method", "Campaign">> }

\* the rows of a file read under the given header
WithColumns(cols, rows) ==
    Table(cols, [i \in DOMAIN rows |->
                   [c \in Range(cols) |->
                      IF c \in DOMAIN rows[i] THEN rows[i][c] ELSE NaN]])

AmountStrings == { Amount100, Amount1000, <<"$", "1", "a">> }

ColumnRequests ==
    { [c |-> WithColumns(cc, BaseConstituents), e |-> WithColumns(ec, BaseEmails),
       d |-> WithColumns(dc, << DonationRow(1, a, Date1, <<"Paid">>) >>)] :
      cc \in ConstituentColumns, ec \in EmailColumns, dc \in DonationColumns,
      a \in AmountStrings }

\* requests that differ in the Patron IDs, the primary e-mails and the
\* emails file
PrimaryEmails == { <<"p@x.com">>, <<"ok@x.com">>, <<"bad@">>, NaN }

EmailConstituentRows ==
    { ConstituentRow(1, <<"Jane">>, <<"Doe">>, Date1, m, Acme, TagA, CEO, Married) :
        m \in PrimaryEmails }
    \cup { ConstituentRow(2, <<"Jane">>, <<"Doe">>, Date1, <<"ok2@x.com">>, Acme, TagA,
                          CEO, Married) }

EmailRows ==
    { EmailRow(1, m) : m \in { <<"ok@x.com">>, <<"ok2@x.com">>, <<"bad@">> } }
    \cup { EmailRow(2, <<"ok@x.com">>) }

EmailRequests ==
    { [c |-> Table(exp_columns[1], cr), e |-> Table(exp_columns[2], er),
       d |-> Table(exp_columns[3], BaseDonations)] :
      cr \in SeqsUpTo(EmailConstituentRows, 1, MaxRows),
      er \in SeqsUpTo(EmailRows, 0, MaxEmails) }

\* requests that differ in the donation history
DonationRows ==
    { DonationRow(1, Amount100, d, st) :
        d \in {Date1, Date2}, st \in { <<"Paid">>, <<"Refunded">> } }
    \cup { DonationRow(1, Amount1000, Date2, <<"Paid">>),
           DonationRow(2, Amount100, Date1, <<"Paid">>) }

DonationRequests ==
    { [c |-> Table(exp_columns[1], cr), e |-> Table(exp_columns[2], BaseEmails),
       d |-> Table(exp_columns[3], dr)] :
      cr \in SeqsUpTo({ BaseRow(1), BaseRow(2) }, 1, MaxRows),
      dr \in SeqsUpTo(DonationRows, 0, MaxDonations) }

\* requests whose donation dates are written month/day/year
Slash1 == <<"9", "/", "1", "/", "2", "0", "2", "3">>
Slash2 == <<"1", "0", "/", "1", "/", "2", "0", "2", "3">>

SlashDonationRows ==
    { DonationRow(1, Amount100, Slash1, <<"Paid">>),
      DonationRow(1, Amount1000, Slash2, <<"Paid">>),
      DonationRow(1, Amount1000, Slash2, <<"Refunded">>) }

SlashDateRequests ==
    { [c |-> Table(exp_columns[1], BaseConstituents),
       e |-> Table(exp_columns[2], BaseEmails),
       d |-> Table(exp_columns[3], dr)] :
      dr \in SeqsUpTo(SlashDonationRows, 1, MaxDonations) }

\* requests that differ in the names and the company
\* (pd.read_csv reads the cells None, n/a and N/A as missing values, so no
\* str of a table is one of them)
Companies == { Acme, <<"N", "O", "N", "E">>, <<"n", "o", "n", "e">>, <<"N", "/", "a">>, <<"U", "s", "e", "d", " ", "t", "o", " ", "w", "o", "r", "k", " ", "h", "e", "r", "e">>, <<"u", "s", "e", "d", " ", "t", "o", " ", "w", "o", "r", "k", " ", "h", "e", "r", "e">>, NaN }

ClassifierRequests ==
    { [c |-> Table(exp_columns[1],
                   pre \o << ConstituentRow(2, f, l, Date1, <<"p@x.com">>, co, TagA, CEO,
                                            Married) >>),
       e |-> Table(exp_columns[2], BaseEmails),
       d |-> Table(exp_columns[3], BaseDonations)] :
      f \in { <<"Jane">>, NaN }, l \in { <<"Doe">>, NaN }, co \in Companies,
      pre \in { <<>>, BaseConstituents } }

\* requests that differ in Date Entered: strings of up to MaxWords words
DateWords == { Date1, <<"3", ":", "4", "5">>, <<"0", "3", ":", "4", "5">>, <<"3", ":", "4", "5", ":", "1", "0">>, <<"0", "3", ":", "4", "5", ":", "1", "0">>, <<"P", "M">>, <<"h", "e", "l", "l", "o">> }

DateStrings ==
    { Join(w, <<" ">>) : w \in SeqsUpTo(DateWords, 1, MaxWords) } \cup { NaN }

DateRequests ==
    { [c |-> Table(exp_columns[1],
                   pre \o << ConstituentRow(2, <<"Jane">>, <<"Doe">>, ds, <<"p@x.com">>, Acme,
                                            TagA, CEO, Married) >>),
       e |-> Table(exp_columns[2], BaseEmails),
       d |-> Table(exp_columns[3], BaseDonations)] :
      ds \in DateStrings, pre \in { <<>>, BaseConstituents } }

\* requests that differ in Tags
TagStrings == { NaN, <<"A">>, TagsAB, <<"B", ",", "A">>, <<" ", "B", " ">>, <<"A", ",", "A", ",">> }

TagRows ==
    { ConstituentRow(1, <<"Jane">>, <<"Doe">>, Date1, <<"p@x.com">>, Acme, t, CEO, Married) :
        t \in TagStrings }
    \cup { ConstituentRow(2, <<"Jane">>, <<"Doe">>, Date1, <<"p@x.com">>, Acme, <<"B">>, CEO,
                          Married) }

TagRequests ==
    { [c |-> Table(exp_columns[1], cr), e |-> Table(exp_columns[2], BaseEmails),
       d |-> Table(exp_columns[3], BaseDonations)] :
      cr \in SeqsUpTo(TagRows, 1, MaxRows) }

\* requests that differ in Title and Gender
BackgroundRequests ==
    { [c |-> Table(exp_columns[1],
                   pre \o << ConstituentRow(2, <<"Jane">>, <<"Doe">>, Date1, <<"p@x.com">>, Acme,
                                            TagA, ti, g) >>),
       e |-> Table(exp_columns[2], BaseEmails),
       d |-> Table(exp_columns[3], BaseDonations)] :
      ti \in { CEO, NaN }, g \in { Married, Unknown, NaN }, pre \in { <<>>, BaseConstituents } }

Requests ==
    ColumnRequests \cup EmailRequests \cup DonationRequests \cup ClassifierRequests
    \cup DateRequests \cup TagRequests \cup BackgroundRequests \cup SlashDateRequests

(***************************************************************************)
(* app.py: get_outputs, one request from the parsed files to the response. *)
(***************************************************************************)
NoTable == [cols |-> <<>>, rows |-> <<>>]

NoResponse == [kind |-> "none", at |-> "", body |-> <<>>]

Raise(exc, component) == [kind |-> "exception", at |-> component, body |-> <<exc>>]

Init ==
    /\ pc = "validate"
    /\ \E r \in Requests :
         /\ constituents_df = r.c
         /\ emails_df = r.e
         /\ dhist_df = r.d
    /\ mapped_tags = <<>>
    /\ c_df = NoTable
    /\ t_df = NoTable
    /\ response = NoResponse
    /\ ran = <<>>

\* the handler without the return of line 43: the message is built and the
\* request goes on
ValidateWithoutReturn ==
    /\ pc = "validate"
    /\ LET v == validate_data(constituents_df, emails_df, dhist_df)
       IN  /\ dhist_df' = v.dhist
           /\ pc' = "fetch"
           /\ response' = IF v.valid THEN response
                          ELSE [kind |-> "error", at |-> "validate_data",
                                body |-> <<"Error", "detected:">> \o v.msg]
    /\ ran' = Append(ran, "validate_data")
    /\ UNCHANGED <<constituents_df, emails_df, mapped_tags, c_df, t_df>>

\* lines 41-43: validate_data, and the error message when it fails
Validate ==
    /\ pc = "validate"
    /\ LET v == validate_data(constituents_df, emails_df, dhist_df)
       IN  /\ dhist_df' = v.dhist
           /\ IF v.valid
              THEN pc' = "fetch" /\ response' = response
              ELSE /\ pc' = "done"
                   /\ response' = [kind |-> "error", at |-> "validate_data",
                                   body |-> <<"Error", "detected:">> \o v.msg]
    /\ ran' = Append(ran, "validate_data")
    /\ UNCHANGED <<constituents_df, emails_df, mapped_tags, c_df, t_df>>

\* line 45 into helper.py line 137: the tag-mapping fetch
FetchTags ==
    /\ pc = "fetch"
    /\ \E outcome \in ApiOutcomes :
         LET m == get_mapped_tags(outcome)
         IN  IF m.raised = "none"
             THEN pc' = "constituents" /\ mapped_tags' = m.value /\ response' = response
             ELSE /\ pc' = "done"
                  /\ mapped_tags' = mapped_tags
                  /\ response' = Raise(m.raised, "get_mapped_tags")
    /\ ran' = Append(ran, "get_mapped_tags")
    /\ UNCHANGED <<constituents_df, emails_df, dhist_df, c_df, t_df>>

\* the Tags column map_tags can produce for the table
TagColumns(c, mapping) ==
    { t \in [DOMAIN c.rows -> UNION { map_tags(c.rows[i]["Tags"], mapping) : i \in DOMAIN c.rows }] :
        \A i \in DOMAIN c.rows : t[i] \in map_tags(c.rows[i]["Tags"], mapping) }

\* line 45: the rest of gen_constituents
GenConstituents ==
    /\ pc = "constituents"
    /\ LET exc == GenConstituentsRaises(constituents_df, emails_df)
       IN  IF exc = "none"
           THEN /\ \E tags \in TagColumns(constituents_df, mapped_tags) :
                     c_df' = gen_constituents(constituents_df, emails_df, dhist_df, tags)
                /\ pc' = "tag_counts"
                /\ response' = response
           ELSE /\ c_df' = c_df
                /\ pc' = "done"
                /\ response' = Raise(exc, "gen_constituents")
    /\ ran' = Append(ran, "gen_constituents")
    /\ UNCHANGED <<constituents_df, emails_df, dhist_df, mapped_tags, t_df>>

\* line 46: gen_tag_counts
GenTagCounts ==
    /\ pc = "tag_counts"
    /\ LET t == gen_tag_counts(c_df)
       IN  IF t.raised = "none"
           THEN t_df' = t.df /\ pc' = "zip" /\ response' = response
           ELSE t_df' = t_df /\ pc' = "done" /\ response' = Raise(t.raised, "gen_tag_counts")
    /\ ran' = Append(ran, "gen_tag_counts")
    /\ UNCHANGED <<constituents_df, emails_df, dhist_df, mapped_tags, c_df>>

\* lines 47-61: both tables written to the ZIP archive and sent
SendZip ==
    /\ pc = "zip"
    /\ response' = [kind |-> "zip", at |-> "get_outputs",
                    body |-> <<[name |-> "cuebox_constituents.csv", table |-> c_df],
                               [name |-> "cuebox_tags.csv", table |-> t_df]>>]
    /\ pc' = "done"
    /\ ran' = Append(ran, "zip")
    /\ UNCHANGED <<constituents_df, emails_df, dhist_df, mapped_tags, c_df, t_df>>

Next == Validate \/ FetchTags \/ GenConstituents \/ GenTagCounts \/ SendZip

Spec == Init /\ [][Next]_vars

(***************************************************************************)
(* Properties                                                              *)
(***************************************************************************)
SchemaViolated(i) ==
    Range(<<constituents_df.cols, emails_df.cols, dhist_df.cols>>[i]) # Range(exp_columns[i])

\* C1: validate_data is the first component of every request to run, and
\* when it reports a hard failure the handler answers the error message and
\* stops: the tag fetch, gen_constituents, gen_tag_counts and the ZIP build
\* never run and no table is produced.
C1_ValidationGatesPipeline ==
    /\ [](ran # <<>> => ran[1] = "validate_data")
    /\ [][(pc = "validate" /\ ~validate_data(constituents_df, emails_df, dhist_df).valid)
            => (response'.kind = "error" /\ pc' = "done")]_vars
    /\ [](response.kind = "error"
            => /\ ran = <<"validate_data">>
               /\ pc = "done"
               /\ mapped_tags = <<>> /\ c_df = NoTable /\ t_df = NoTable)
    /\ [][pc # "done"]_vars

C1_Witness ==
    /\ response.kind = "error"
    /\ response.body = <<"Error", "detected:">> \o AmountMessage
    /\ pc = "done"

\* the words by which a message can name each of the three tables
TableWords ==
    << {"constituents", "Constituents", "constituent", "Constituent"},
       {"emails", "Emails", "email", "Email"},
       {"donation", "Donation", "donations", "Donations", "history"} >>

\* C2: when one of the three tables has a column set other than the expected
\* one, the error message names that table.
C2_SchemaMessageNamesTable ==
    \A i \in 1..3 :
        (response.kind = "error" /\ SchemaViolated(i) /\ \A j \in 1..(i - 1) : ~SchemaViolated(j))
        => \E k \in DOMAIN response.body : response.body[k] \in TableWords[i]

ValidEmailsOf(pid) ==
    LET rows == SelectSeq(emails_df.rows,
                          LAMBDA r : r["Patron ID"] = pid /\ validate_email(r["Email"]) = "ok")
    IN  [i \in DOMAIN rows |-> rows[i]["Email"]]

FirstOrNaN(seq) == IF seq = <<>> THEN NaN ELSE seq[1]

\* C4: in every output row, email1 is the declared primary e-mail if it
\* validates and else the first valid e-mail on file for the Patron ID (or
\* empty), and email2 is the first valid e-mail on file for the Patron ID
\* that differs from the row's email1 (or empty).
C4_EmailSelection ==
    pc = "tag_counts" =>
    \A i \in DOMAIN c_df.rows :
        LET in     == constituents_df.rows[i]
            onfile == ValidEmailsOf(in["Patron ID"])
            email1 == IF validate_email(in["Primary Email"]) = "ok"
                      THEN in["Primary Email"] ELSE FirstOrNaN(onfile)
            email2 == FirstOrNaN(SelectSeq(onfile, LAMBDA m : m # email1))
        IN  /\ c_df.rows[i]["email1"] = email1
            /\ c_df.rows[i]["email2"] = email2
            /\ notnull(email2) => email2 # c_df.rows[i]["email1"]

\* the same for the rows whose Patron ID no other row has
C4_EmailSelectionUniqueIds ==
    pc = "tag_counts" =>
    \A i \in DOMAIN c_df.rows :
        (\A j \in DOMAIN c_df.rows :
            j # i => constituents_df.rows[j]["Patron ID"] # constituents_df.rows[i]["Patron ID"])
        => LET in     == constituents_df.rows[i]
               onfile == ValidEmailsOf(in["Patron ID"])
               email1 == IF validate_email(in["Primary Email"]) = "ok"
                         THEN in["Primary Email"] ELSE FirstOrNaN(onfile)
           IN  /\ c_df.rows[i]["email1"] = email1
               /\ c_df.rows[i]["email2"] = FirstOrNaN(SelectSeq(onfile, LAMBDA m : m # email1))

\* the stoplist the classifier is documented to use
Stoplist == { <<"n", "/", "a">>, <<"n", "o", "n", "e">>, <<"u", "s", "e", "d", " ", "t", "o", " ", "w", "o", "r", "k", " ", "h", "e", "r", "e">> }

\* C5: a constituent without a first or a last name whose company, in lower
\* case, is a stoplist word has type Unknown, not Company.
C5_StoplistCompanyIsUnknown ==
    pc = "tag_counts" =>
    \A i \in DOMAIN c_df.rows :
        LET in == constituents_df.rows[i]
        IN  (/\ ~notnull(in["First Name"]) \/ ~notnull(in["Last Name"])
             /\ notnull(in["Company"])
             /\ Lower(in["Company"]) \in Stoplist)
            => c_df.rows[i]["type"] = <<"Unknown">>

\* YYYY-MM-DD HH:MM:SS
IsCanonical(date) ==
    /\ Len(date) = 19
    /\ IsDate(SubSeq(date, 1, 10))
    /\ date[11] = " "
    /\ IsTime(SubSeq(date, 12, 19))
    /\ Len(SplitOn(SubSeq(date, 12, 19), <<":">>)[1]) = 2

\* C6: a Date Entered already in the form YYYY-MM-DD HH:MM:SS comes out of
\* normalize_dates and the formatting as the same string.
C6_CanonicalDateUnchanged ==
    \A i \in DOMAIN constituents_df.rows :
        (/\ InSeq(ran, "gen_constituents")
         /\ IsCanonical(constituents_df.rows[i]["Date Entered"])
         /\ \A j \in DOMAIN constituents_df.rows :
               j # i => normalize_dates(constituents_df.rows[j]["Date Entered"]).raised = "none")
        => /\ response # Raise("ValueError", "gen_constituents")
           /\ response.at # "gen_constituents"
              => c_df.rows[i]["created_at"] = constituents_df.rows[i]["Date Entered"]

\* C7: whatever the tag-mapping API does, the fetch does not end the
\* request: get_mapped_tags returns a mapping and gen_constituents goes on.
C7_TagFetchNeverAborts ==
    InSeq(ran, "get_mapped_tags") => response.at # "get_mapped_tags"

OutputColumns ==
    <<"patron_id", "type", "first_name", "last_name", "company", "created_at", "email1",
      "email2", "title", "tags", "background_info", "lifetime_donations",
      "most_recent_donation_amount", "most_recent_donation_date">>

\* C8: the table gen_constituents returns has exactly the fourteen output
\* columns in the documented order, whatever the order of the input columns.
C8_OutputColumnOrder ==
    pc = "tag_counts" => c_df.cols = OutputColumns

\* the tags of one output row, null tags giving none
TagsOf(r) == IF notnull(r["tags"]) THEN SplitOn(r["tags"], <<",", " ">>) ELSE <<>>

\* the (row, position) pairs of the table that carry the tag
Carriers(name) ==
    UNION { { <<i, k>> : k \in { n \in DOMAIN TagsOf(c_df.rows[i]) :
                                   TagsOf(c_df.rows[i])[n] = name } } :
            i \in DOMAIN c_df.rows }

C10_NormalizeDatesNeverRaises ==
    InSeq(ran, "gen_constituents") => response # Raise("ValueError", "gen_constituents")


\* the day a Donation Date names, as year * 10000 + month * 100 + day, for
\* the forms YYYY-MM-DD and month/day/year; 0 for any other string
DateKey(d) ==
    LET f == SplitOn(d, <<"/">>)
    IN  IF IsDate(d)
        THEN ToInt(SubSeq(d, 1, 4)) * 10000 + ToInt(SubSeq(d, 6, 7)) * 100
             + ToInt(SubSeq(d, 9, 10))
        ELSE IF Len(f) = 3 /\ \A i \in DOMAIN f : AllDigits(f[i])
        THEN ToInt(f[3]) * 10000 + ToInt(f[1]) * 100 + ToInt(f[2])
        ELSE 0

\* the Paid records of a Patron ID, in input order
PaidOf(pid) ==
    SelectSeq(dhist_df.rows, LAMBDA r : r["Patron ID"] = pid /\ r["Status"] = <<"Paid">>)

\* the first of the records with the latest date
Latest(rows) ==
    LET j == CHOOSE k \in DOMAIN rows :
                 /\ \A l \in DOMAIN rows :
                       DateKey(rows[l]["Donation Date"]) <= DateKey(rows[k]["Donation Date"])
                 /\ \A l \in 1..(k - 1) :
                       DateKey(rows[l]["Donation Date"]) < DateKey(rows[k]["Donation Date"])
    IN  rows[j]

\* C11: in every output row whose patron has a Paid donation, the most
\* recent donation date and amount are those of the patron's Paid record
\* with the latest date, the first in input order among records of that
\* date, so never those of a record with another status; a row whose patron
\* has no Paid donation has null in both fields and in lifetime_donations.
C11_MostRecentPaidDonation ==
    pc = "tag_counts" =>
    \A i \in DOMAIN c_df.rows :
        LET out  == c_df.rows[i]
            paid == PaidOf(out["patron_id"])
        IN  IF paid = <<>>
            THEN /\ out["most_recent_donation_date"] = NaN
                 /\ out["most_recent_donation_amount"] = NaN
                 /\ out["lifetime_donations"] = NaN
            ELSE /\ out["most_recent_donation_date"] = Latest(paid)["Donation Date"]
                 /\ out["most_recent_donation_amount"]
                      = FormatCurrency(Latest(paid)["Donation Amount"])

\* the same for the rows whose patron's Paid donations are all dated in the
\* form YYYY-MM-DD, where the order of the strings is the order of the days
C11_MostRecentIsoDates ==
    pc = "tag_counts" =>
    \A i \in DOMAIN c_df.rows :
        LET out  == c_df.rows[i]
            paid == PaidOf(out["patron_id"])
        IN  (\A k \in DOMAIN paid : IsDate(paid[k]["Donation Date"])) =>
            IF paid = <<>>
            THEN /\ out["most_recent_donation_date"] = NaN
                 /\ out["most_recent_donation_amount"] = NaN
                 /\ out["lifetime_donations"] = NaN
            ELSE /\ out["most_recent_donation_date"] = Latest(paid)["Donation Date"]
                 /\ out["most_recent_donation_amount"]
                      = FormatCurrency(Latest(paid)["Donation Amount"])

\* a patron with Paid donations on two days beside a patron with none
C11_IsoWitness ==
    /\ pc = "tag_counts"
    /\ \E i \in DOMAIN c_df.rows :
          /\ Len(PaidOf(c_df.rows[i]["patron_id"])) = 2
          /\ PaidOf(c_df.rows[i]["patron_id"])[1]["Donation Date"]
               # PaidOf(c_df.rows[i]["patron_id"])[2]["Donation Date"]
    /\ \E i \in DOMAIN c_df.rows : PaidOf(c_df.rows[i]["patron_id"]) = <<>>

====
